---- MODULE Spec2Model ----
(***************************************************************************)
(* Typing-match and word-lifecycle core of typetorial_incubator:           *)
(* the Word entity (entities/Word.ts), the WordSpawner that owns the live  *)
(* collection and the message queue, the GameState singleton, and the      *)
(* MainScreen input router / host callbacks that drive them.               *)
(*                                                                         *)
(* Strings are sequences of one-character strings.  Positions are pixels   *)
(* on the horizontal axis, time steps are whole seconds (update multiplies *)
(* by 1000 for the spawn timer).  The vertical axis only bounces and       *)
(* touches no flag, so it is not carried.                                  *)
(***************************************************************************)
EXTENDS Integers, Sequences, FiniteSets, TLC

\* ---------------------------------------------------------------- bounds
GameHalfWidth == 360        \* GameConstants.GAME_WIDTH / 2 (window dependent)
MaxEntities == 6            \* Word objects constructed in one run
MaxSpawnTimer == 14000      \* cap of the spawn-timer accumulator (ms)
MaxAdvanceSignals == 2      \* cap of level-advance emissions per level
MaxSpawnerEntities == 3     \* Word objects constructed in one run of SpecSpawner

\* ------------------------------------------------------- program constants
MARGIN == 50
WORD_SPEED == 100
WORD_SPAWN_INTERVAL == 3000
PLAYER_LIVES == 3
DefaultMaxWords == 5
BossHitRange == 50
PlayerOffset == 50
MonsterOffset == 100

WORD_SPAWN_X == GameHalfWidth - MARGIN
WORD_DESTROY_X == (0 - GameHalfWidth) - MARGIN
PLAYER_X == (0 - GameHalfWidth) + MARGIN + PlayerOffset
PLAYER_MESSAGE_SPAWN_X == PLAYER_X + PlayerOffset
MONSTER_X == GameHalfWidth - MARGIN - MonsterOffset

Difficulties == {"easy", "medium", "hard"}

DIFFICULTY_LEVELS ==
  [easy   |-> [wordSpeed |-> 80,  spawnInterval |-> 3000],
   medium |-> [wordSpeed |-> 120, spawnInterval |-> 2000],
   hard   |-> [wordSpeed |-> 160, spawnInterval |-> 1500]]

\* ------------------------------------------------------------ input sets
Keys == {"a", "b", " "}     \* event.key values that pass isValidCharacter
Dts == {1, 3}               \* deltaTime of one frame, in seconds

\* The dictionary (messages.json) is a pure data source: level -> entries.
MessageDictionary ==
  << [text |-> <<"a", "b">>, author |-> "mentor", level |-> 1],
     [text |-> <<"a", "a">>, author |-> "mentor", level |-> 1],
     [text |-> <<"b">>,      author |-> "mentor", level |-> 1],
     [text |-> <<"b", "a">>, author |-> "asel",   level |-> 2] >>

\* Level3TextManager texts (level3-texts.json).
Level3Texts == { <<"a", " ", "b">> }

NoWord == 0                 \* the null Word reference
NoWords == [i \in {} |-> i]  \* no Word object is live

\* --------------------------------------------------------------- helpers
Min(a, b) == IF a < b THEN a ELSE b
Max(a, b) == IF a > b THEN a ELSE b

\* String.prototype.toLowerCase on one character.
toLowerCase(c) == IF c = "A" THEN "a" ELSE IF c = "B" THEN "b" ELSE c

\* String.prototype.startsWith
startsWith(s, p) ==
  /\ Len(p) <= Len(s)
  /\ \A i \in 1..Len(p) : s[i] = p[i]

\* Array.prototype.filter on a sequence, keeping order.
RECURSIVE FilterSeq(_, _)
FilterSeq(s, keep) ==
  IF s = << >> THEN << >>
  ELSE IF Head(s) \in keep THEN <<Head(s)>> \o FilterSeq(Tail(s), keep)
       ELSE FilterSeq(Tail(s), keep)

\* Array.prototype.splice(i, 1) (1-based index)
Splice(s, i) == SubSeq(s, 1, i - 1) \o SubSeq(s, i + 1, Len(s))

\* ------------------------------------------------------------------ Word
\* new Word(text, speed): progress 0, all flags false, moving left.
\* okCalls, completedSeen and edgeSeen are observers' tallies: the calls of
\* typeCharacter that returned true, and the deliveries of the completed
\* and reached-edge events for this Word.
NewWord(text, speed, x) ==
  [targetText |-> text, typedProgress |-> 0,
   isActive |-> FALSE, isCompleted |-> FALSE, hasReachedEdge |-> FALSE,
   x |-> x, speed |-> speed, velocityX |-> 0 - speed,
   directionMultiplier |-> 0 - 1, isPlayerMessage |-> FALSE,
   okCalls |-> 0, completedSeen |-> 0, edgeSeen |-> 0]

\* Word.setDirection(direction)
setDirection(w, direction) ==
  [w EXCEPT !.directionMultiplier = direction,
            !.isPlayerMessage = (direction = 1),
            !.velocityX = direction * w.speed]

\* Variant of update: a completed entity keeps moving.
WordUpdate_movesCompleted(w, dt) ==
  LET nx == w.x + w.velocityX * dt
      edge == IF w.directionMultiplier < 0
              THEN nx < WORD_DESTROY_X
              ELSE nx > WORD_SPAWN_X
  IN [w EXCEPT !.x = nx, !.hasReachedEdge = (w.hasReachedEdge \/ edge)]

\* Word.update(deltaTime)
WordUpdate(w, dt) ==
  IF w.isCompleted THEN w
  ELSE LET nx == w.x + w.velocityX * dt
           edge == IF w.directionMultiplier < 0
                   THEN nx < WORD_DESTROY_X
                   ELSE nx > WORD_SPAWN_X
       IN [w EXCEPT !.x = nx,
                    !.hasReachedEdge = (w.hasReachedEdge \/ edge)]

\* Word.complete()
complete(w) == [w EXCEPT !.isCompleted = TRUE, !.isActive = FALSE]

\* Variant of typeCharacter: the progress counter is advanced twice.
typeCharacter_countsTwice(w, char) ==
  IF w.isCompleted \/ ~w.isActive THEN [word |-> w, ok |-> FALSE]
  ELSE IF w.typedProgress < Len(w.targetText)
          /\ char = w.targetText[w.typedProgress + 1]
       THEN LET w1 == [w EXCEPT !.typedProgress = w.typedProgress + 2]
            IN [word |-> IF w1.typedProgress >= Len(w1.targetText)
                         THEN complete(w1) ELSE w1,
                ok |-> TRUE]
       ELSE [word |-> w, ok |-> FALSE]

\* Variant of typeCharacter: completion is tested with > instead of >=.
typeCharacter_lateCompletion(w, char) ==
  IF w.isCompleted \/ ~w.isActive THEN [word |-> w, ok |-> FALSE]
  ELSE IF w.typedProgress < Len(w.targetText)
          /\ char = w.targetText[w.typedProgress + 1]
       THEN LET w1 == [w EXCEPT !.typedProgress = w.typedProgress + 1]
            IN [word |-> IF w1.typedProgress > Len(w1.targetText)
                         THEN complete(w1) ELSE w1,
                ok |-> TRUE]
       ELSE [word |-> w, ok |-> FALSE]

\* Variant of typeCharacter: the guard does not look at isActive.
typeCharacter_ignoresActive(w, char) ==
  IF w.isCompleted THEN [word |-> w, ok |-> FALSE]
  ELSE IF w.typedProgress < Len(w.targetText)
          /\ char = w.targetText[w.typedProgress + 1]
       THEN LET w1 == [w EXCEPT !.typedProgress = w.typedProgress + 1]
            IN [word |-> IF w1.typedProgress >= Len(w1.targetText)
                         THEN complete(w1) ELSE w1,
                ok |-> TRUE]
       ELSE [word |-> w, ok |-> FALSE]

\* Variant of typeCharacter: the typed character is lower-cased first.
typeCharacter_lowerCases(w, char) ==
  IF w.isCompleted \/ ~w.isActive THEN [word |-> w, ok |-> FALSE]
  ELSE IF w.typedProgress < Len(w.targetText)
          /\ toLowerCase(char) = w.targetText[w.typedProgress + 1]
       THEN LET w1 == [w EXCEPT !.typedProgress = w.typedProgress + 1]
            IN [word |-> IF w1.typedProgress >= Len(w1.targetText)
                         THEN complete(w1) ELSE w1,
                ok |-> TRUE]
       ELSE [word |-> w, ok |-> FALSE]

\* Word.typeCharacter(char): the pair (word after the call, returned value)
typeCharacter(w, char) ==
  IF w.isCompleted \/ ~w.isActive THEN [word |-> w, ok |-> FALSE]
  ELSE IF w.typedProgress < Len(w.targetText)
          /\ char = w.targetText[w.typedProgress + 1]
       THEN LET w1 == [w EXCEPT !.typedProgress = w.typedProgress + 1]
            IN [word |-> IF w1.typedProgress >= Len(w1.targetText)
                         THEN complete(w1) ELSE w1,
                ok |-> TRUE]
       ELSE [word |-> w, ok |-> FALSE]

\* Word.setActive(active)
setActive(w, active) == [w EXCEPT !.isActive = active]

\* Word.getNextCharacter(): "null" stands for the null reference
getNextCharacter(w) ==
  IF w.typedProgress >= Len(w.targetText) THEN "null"
  ELSE w.targetText[w.typedProgress + 1]

\* Word.matchesInput(input)
matchesInput(w, input) == startsWith(w.targetText, input)

\* Word.resetProgress(): public, not called by any screen or by the spawner
resetProgress(w) ==
  [w EXCEPT !.typedProgress = 0, !.isCompleted = FALSE,
            !.hasReachedEdge = FALSE]

\* ----------------------------------------------------------- GameState
\* GameState.setLevelProgress(progress): clamps to 0..100
setLevelProgress(s, progress) ==
  [s EXCEPT !.levelProgress = Max(0, Min(100, progress))]

\* GameState.startLevelTransition(nextLevel)
startLevelTransition(s, nextLevel) ==
  [s EXCEPT !.transitioningToLevel = nextLevel]

\* GameState.completeLevelTransition(); 0 stands for null
completeLevelTransition(s) ==
  IF s.transitioningToLevel # 0
  THEN [s EXCEPT !.currentLevel = s.transitioningToLevel,
                 !.transitioningToLevel = 0,
                 !.levelProgress = 0]
  ELSE s

\* GameState.reset()
GameStateReset(s) ==
  [s EXCEPT !.currentLevel = 1, !.levelProgress = 0,
            !.transitioningToLevel = 0]

\* MessageDictionary.getMessagesByLevel(level)
RECURSIVE FilterLevel(_, _)
FilterLevel(msgs, level) ==
  IF msgs = << >> THEN << >>
  ELSE IF Head(msgs).level = level
       THEN <<Head(msgs)>> \o FilterLevel(Tail(msgs), level)
       ELSE FilterLevel(Tail(msgs), level)

getMessagesByLevel(level) == FilterLevel(MessageDictionary, level)

\* ------------------------------------------------- WordSpawner: Matcher
\* Variant of findMatchingWord: completed entities are candidates too.
findMatchingWord_ignoresCompleted(s, input) ==
  LET hits == {k \in 1..Len(s.activeWords) :
                 matchesInput(s.words[s.activeWords[k]], input)}
  IN IF hits = {} THEN NoWord
     ELSE s.activeWords[CHOOSE k \in hits : \A j \in hits : k <= j]

\* WordSpawner.findMatchingWord(input): first live, non-completed match
RECURSIVE findMatchingFrom(_, _, _)
findMatchingFrom(s, input, k) ==
  IF k > Len(s.activeWords) THEN NoWord
  ELSE LET id == s.activeWords[k]
       IN IF matchesInput(s.words[id], input) /\ ~s.words[id].isCompleted
          THEN id
          ELSE findMatchingFrom(s, input, k + 1)

findMatchingWord(s, input) == findMatchingFrom(s, input, 1)

\* WordSpawner.getActiveWord(): Array.find((word) => word.isActive) || null
RECURSIVE getActiveFrom(_, _)
getActiveFrom(s, k) ==
  IF k > Len(s.activeWords) THEN NoWord
  ELSE IF s.words[s.activeWords[k]].isActive THEN s.activeWords[k]
       ELSE getActiveFrom(s, k + 1)

getActiveWord(s) == getActiveFrom(s, 1)

\* Variant of setActiveWord: the first loop activates instead of deactivating.
setActiveWord_activatesAll(s, targetWord) ==
  LET live == {s.activeWords[k] : k \in 1..Len(s.activeWords)}
      on == [i \in DOMAIN s.words |->
               IF i \in live THEN setActive(s.words[i], TRUE)
               ELSE s.words[i]]
  IN [s EXCEPT !.words =
        IF targetWord # NoWord
        THEN [on EXCEPT ![targetWord] = setActive(@, TRUE)]
        ELSE on]

\* Variant of setActiveWord: the activated entity is moved to the front of
\* the collection.
setActiveWord_movesToFront(s, targetWord) ==
  LET off == [i \in DOMAIN s.words |-> setActive(s.words[i], FALSE)]
  IN IF targetWord # NoWord
     THEN [s EXCEPT !.words = [off EXCEPT ![targetWord] = setActive(@, TRUE)],
                    !.activeWords =
                      <<targetWord>> \o FilterSeq(@, DOMAIN s.words
                                                       \ {targetWord})]
     ELSE [s EXCEPT !.words = off]

\* WordSpawner.setActiveWord(targetWord)
setActiveWord(s, targetWord) ==
  LET live == {s.activeWords[k] : k \in 1..Len(s.activeWords)}
      off == [i \in DOMAIN s.words |->
                IF i \in live THEN setActive(s.words[i], FALSE)
                ELSE s.words[i]]
  IN [s EXCEPT !.words =
        IF targetWord # NoWord
        THEN [off EXCEPT ![targetWord] = setActive(@, TRUE)]
        ELSE off]

\* ------------------------------------------------ MainScreen callbacks
\* MainScreen.clearInput()
clearInput(s) == setActiveWord([s EXCEPT !.currentInput = << >>], NoWord)

\* MainScreen.gameOver(): the part that runs before the first await
gameOver(s) ==
  [s EXCEPT !.isSpawning = FALSE, !.isEnabled = FALSE,
            !.gameOverCount = @ + 1]

\* MainScreen.handleWordReachedEdge()
handleWordReachedEdge(s) ==
  LET s1 == [s EXCEPT !.lives = @ - 1]
  IN IF s1.lives <= 0 THEN gameOver(s1) ELSE s1

\* MainScreen.handleWordCompleted(word)
handleWordCompleted(s, id) ==
  clearInput([s EXCEPT !.score = @ + Len(s.words[id].targetText) * 10,
                       !.completedMessages = @ + 1,
                       !.words[id].completedSeen = @ + 1])

\* MainScreen.handleLevelAdvance(): the part that runs before the first await
handleLevelAdvance(s) ==
  clearInput([s EXCEPT !.isSpawning = FALSE, !.isEnabled = FALSE])

\* A call word.typeCharacter(char) on the Word id, as its caller sees it:
\* the Word is mutated in place and the call is tallied.
callTypeCharacter(s, id, char) ==
  LET r == typeCharacter(s.words[id], char)
  IN [s EXCEPT !.words[id] =
                 [r.word EXCEPT !.okCalls = IF r.ok THEN @ + 1 ELSE @],
               !.lastCall = << [before |-> s.words[id], char |-> char,
                                after |-> r.word, ok |-> r.ok] >>]

\* MainScreen.processActiveWordInput(activeWord, char)
processActiveWordInput(s, id, char) ==
  LET s1 == callTypeCharacter(s, id, char)
      success == s1.lastCall[1].ok
  IN IF success /\ s1.words[id].isCompleted
     THEN handleWordCompleted(s1, id)
     ELSE s1

\* ------------------------------------------------ WordSpawner: lifecycle
\* WordSpawner.getSpeedForDifficulty()
getSpeedForDifficulty(s) == DIFFICULTY_LEVELS[s.currentDifficulty].wordSpeed

\* WordSpawner.getSpawnPosition(entry).x: the mentor callback is connected
\* only when the screen is constructed in level 2, so every branch taken
\* from a level-1 start yields the right edge.
getSpawnPosition(s, entry) == WORD_SPAWN_X

\* WordSpawner.updateLevelProgress()
updateLevelProgress(s) ==
  setLevelProgress(s,
    ((s.totalMessages - Len(s.remainingMessages)) * 100)
       \div s.totalMessages)

\* Push a freshly constructed Word into activeWords.
pushWord(s, w) ==
  [s EXCEPT !.words = (s.nextId :> w) @@ s.words,
            !.activeWords = Append(s.activeWords, s.nextId),
            !.nextId = s.nextId + 1]

\* Variant of spawnWord: an empty queue yields a filler entity.
spawnWord_fillerOnEmpty(s, randomIndex) ==
  IF Len(s.remainingMessages) = 0
  THEN pushWord(s, NewWord(<<"a">>, getSpeedForDifficulty(s), WORD_SPAWN_X))
  ELSE LET ri == ((randomIndex - 1) % Len(s.remainingMessages)) + 1
           messageEntry == s.remainingMessages[ri]
           s1 == updateLevelProgress(
                   [s EXCEPT !.remainingMessages = Splice(@, ri)])
       IN pushWord([s1 EXCEPT !.timedSpawns = @ + 1],
                   NewWord(messageEntry.text,
                           getSpeedForDifficulty(s1),
                           getSpawnPosition(s1, messageEntry)))

\* Variant of spawnWord: the spawned entry stays in the queue.
spawnWord_keepsQueue(s, randomIndex) ==
  IF Len(s.remainingMessages) = 0 THEN s
  ELSE LET ri == ((randomIndex - 1) % Len(s.remainingMessages)) + 1
           messageEntry == s.remainingMessages[ri]
           s1 == updateLevelProgress(s)
       IN pushWord([s1 EXCEPT !.timedSpawns = @ + 1],
                   NewWord(messageEntry.text,
                           getSpeedForDifficulty(s1),
                           getSpawnPosition(s1, messageEntry)))

\* WordSpawner.spawnWord(); randomIndex is the Math.random() draw
spawnWord(s, randomIndex) ==
  IF Len(s.remainingMessages) = 0 THEN s
  ELSE LET ri == ((randomIndex - 1) % Len(s.remainingMessages)) + 1
           messageEntry == s.remainingMessages[ri]
           s1 == updateLevelProgress(
                   [s EXCEPT !.remainingMessages = Splice(@, ri)])
       IN pushWord([s1 EXCEPT !.timedSpawns = @ + 1],
                   NewWord(messageEntry.text,
                           getSpeedForDifficulty(s1),
                           getSpawnPosition(s1, messageEntry)))

\* Variant of spawnPlayerMessage: the gates of the timed spawn apply.
spawnPlayerMessage_gated(s, text) ==
  IF s.isSpawning /\ Len(s.activeWords) < s.maxWords
  THEN pushWord(s, setDirection(NewWord(text, getSpeedForDifficulty(s),
                                        PLAYER_MESSAGE_SPAWN_X), 1))
  ELSE s

\* WordSpawner.spawnPlayerMessage(text)
spawnPlayerMessage(s, text) ==
  pushWord(s, setDirection(NewWord(text, getSpeedForDifficulty(s),
                                   PLAYER_MESSAGE_SPAWN_X), 1))

\* WordSpawner.handleLevelComplete()
handleLevelComplete(s) ==
  IF s.currentLevel < 3
  THEN handleLevelAdvance(
         [startLevelTransition(s, s.currentLevel + 1)
            EXCEPT !.advanceSignals = @ + 1])
  ELSE s

\* WordSpawner.updateWords(deltaTime), word by word in collection order
RECURSIVE updateWordsFrom(_, _, _)
updateWordsFrom(s, dt, k) ==
  IF k > Len(s.activeWords) THEN s
  ELSE LET id == s.activeWords[k]
           s1 == [s EXCEPT !.words[id] = WordUpdate(@, dt)]
           s2 == IF s1.words[id].hasReachedEdge
                 THEN handleWordReachedEdge(
                        [s1 EXCEPT !.words[id].edgeSeen = @ + 1])
                 ELSE s1
           s3 == IF s2.words[id].isCompleted
                 THEN handleWordCompleted(s2, id)
                 ELSE s2
       IN updateWordsFrom(s3, dt, k + 1)

updateWords(s, dt) == updateWordsFrom(s, dt, 1)

\* Variant of cleanupWords: only completed entities are removed.
cleanupWords_keepsEdge(s) ==
  LET keep == {i \in DOMAIN s.words : ~s.words[i].isCompleted}
      s1 == [s EXCEPT !.activeWords = FilterSeq(@, keep),
                      !.words = [i \in keep |-> s.words[i]],
                      !.removedWords =
                        [i \in (DOMAIN s.words) \ keep |-> s.words[i]]]
  IN IF Len(s1.remainingMessages) = 0 /\ Len(s1.activeWords) = 0
     THEN handleLevelComplete(s1)
     ELSE s1

\* Variant of cleanupWords: only entities that reached the edge are removed.
cleanupWords_keepsCompleted(s) ==
  LET keep == {i \in DOMAIN s.words : ~s.words[i].hasReachedEdge}
      s1 == [s EXCEPT !.activeWords = FilterSeq(@, keep),
                      !.words = [i \in keep |-> s.words[i]],
                      !.removedWords =
                        [i \in (DOMAIN s.words) \ keep |-> s.words[i]]]
  IN IF Len(s1.remainingMessages) = 0 /\ Len(s1.activeWords) = 0
     THEN handleLevelComplete(s1)
     ELSE s1

\* Variant of cleanupWords: level completion looks at the queue only.
cleanupWords_ignoresLive(s) ==
  LET keep == {i \in DOMAIN s.words :
                 ~(s.words[i].isCompleted \/ s.words[i].hasReachedEdge)}
      s1 == [s EXCEPT !.activeWords = FilterSeq(@, keep),
                      !.words = [i \in keep |-> s.words[i]],
                      !.removedWords =
                        [i \in (DOMAIN s.words) \ keep |-> s.words[i]]]
  IN IF Len(s1.remainingMessages) = 0
     THEN handleLevelComplete(s1)
     ELSE s1

\* WordSpawner.cleanupWords()
cleanupWords(s) ==
  LET keep == {i \in DOMAIN s.words :
                 ~(s.words[i].isCompleted \/ s.words[i].hasReachedEdge)}
      s1 == [s EXCEPT !.activeWords = FilterSeq(@, keep),
                      !.words = [i \in keep |-> s.words[i]],
                      !.removedWords =
                        [i \in (DOMAIN s.words) \ keep |-> s.words[i]]]
  IN IF Len(s1.remainingMessages) = 0 /\ Len(s1.activeWords) = 0
     THEN handleLevelComplete(s1)
     ELSE s1

\* Variant of update: the frame time is not added to the timer.
SpawnerUpdate_frozenTimer(s, dt, randomIndex) ==
  LET s1 == s
      s2 == IF s1.isSpawning /\ s1.spawnTimer >= s1.spawnInterval
               /\ Len(s1.activeWords) < s1.maxWords
            THEN [spawnWord(s1, randomIndex) EXCEPT !.spawnTimer = 0]
            ELSE s1
  IN cleanupWords(updateWords(s2, dt))

\* Variant of update: the isSpawning gate is not looked at.
SpawnerUpdate_ignoresGate(s, dt, randomIndex) ==
  LET s1 == [s EXCEPT !.spawnTimer = @ + dt * 1000]
      s2 == IF s1.spawnTimer >= s1.spawnInterval
               /\ Len(s1.activeWords) < s1.maxWords
            THEN [spawnWord(s1, randomIndex) EXCEPT !.spawnTimer = 0]
            ELSE s1
  IN cleanupWords(updateWords(s2, dt))

\* Variant of update: the timer must exceed the interval.
SpawnerUpdate_strictInterval(s, dt, randomIndex) ==
  LET s1 == [s EXCEPT !.spawnTimer = @ + dt * 1000]
      s2 == IF s1.isSpawning /\ s1.spawnTimer > s1.spawnInterval
               /\ Len(s1.activeWords) < s1.maxWords
            THEN [spawnWord(s1, randomIndex) EXCEPT !.spawnTimer = 0]
            ELSE s1
  IN cleanupWords(updateWords(s2, dt))

\* Variant of update: the cap on live entities is not looked at.
SpawnerUpdate_ignoresCap(s, dt, randomIndex) ==
  LET s1 == [s EXCEPT !.spawnTimer = @ + dt * 1000]
      s2 == IF s1.isSpawning /\ s1.spawnTimer >= s1.spawnInterval
            THEN [spawnWord(s1, randomIndex) EXCEPT !.spawnTimer = 0]
            ELSE s1
  IN cleanupWords(updateWords(s2, dt))

\* Variant of update: a spawn takes one interval off the timer.
SpawnerUpdate_keepsRemainder(s, dt, randomIndex) ==
  LET s1 == [s EXCEPT !.spawnTimer = @ + dt * 1000]
      s2 == IF s1.isSpawning /\ s1.spawnTimer >= s1.spawnInterval
               /\ Len(s1.activeWords) < s1.maxWords
            THEN [spawnWord(s1, randomIndex)
                    EXCEPT !.spawnTimer = s1.spawnTimer - s1.spawnInterval]
            ELSE s1
  IN cleanupWords(updateWords(s2, dt))

\* WordSpawner.update(deltaTime)
SpawnerUpdate(s, dt, randomIndex) ==
  LET s1 == [s EXCEPT !.spawnTimer = @ + dt * 1000]
      s2 == IF s1.isSpawning /\ s1.spawnTimer >= s1.spawnInterval
               /\ Len(s1.activeWords) < s1.maxWords
            THEN [spawnWord(s1, randomIndex) EXCEPT !.spawnTimer = 0]
            ELSE s1
  IN cleanupWords(updateWords(s2, dt))

\* WordSpawner.clearAllWords()
clearAllWords(s) ==
  [s EXCEPT !.activeWords = << >>, !.words = NoWords]

\* WordSpawner.initializeLevel()
initializeLevel(s) ==
  LET msgs == IF s.currentLevel \in {1, 2}
              THEN getMessagesByLevel(s.currentLevel) ELSE << >>
  IN [setLevelProgress(s, 0) EXCEPT !.remainingMessages = msgs,
                                    !.totalMessages = Len(msgs),
                                    !.advanceSignals = 0,
                                    !.timedSpawns = 0]

\* Variant of resetForLevel: the spawn timer is left running.
resetForLevel_keepsTimer(s) == initializeLevel(clearAllWords(s))

\* WordSpawner.resetForLevel()
resetForLevel(s) ==
  [initializeLevel(clearAllWords(s)) EXCEPT !.spawnTimer = 0]

\* WordSpawner.startSpawning()
startSpawning(s) == [s EXCEPT !.isSpawning = TRUE, !.spawnTimer = 0]

\* WordSpawner.stopSpawning()
stopSpawning(s) == [s EXCEPT !.isSpawning = FALSE]

\* WordSpawner.setMaxWords(maxWords)
setMaxWords(s, maxW) == [s EXCEPT !.maxWords = maxW]

\* Variant of setDifficulty: the live entities take the new speed too.
setDifficulty_retroactive(s, difficulty) ==
  [s EXCEPT !.currentDifficulty = difficulty,
            !.spawnInterval = DIFFICULTY_LEVELS[difficulty].spawnInterval,
            !.words = [i \in DOMAIN s.words |->
                         [s.words[i] EXCEPT
                            !.speed = DIFFICULTY_LEVELS[difficulty].wordSpeed,
                            !.velocityX = s.words[i].directionMultiplier
                              * DIFFICULTY_LEVELS[difficulty].wordSpeed]]]

\* WordSpawner.setDifficulty(difficulty)
setDifficulty(s, difficulty) ==
  [s EXCEPT !.currentDifficulty = difficulty,
            !.spawnInterval = DIFFICULTY_LEVELS[difficulty].spawnInterval]

\* ----------------------------------------------------- TypingTextDisplay
\* TypingTextDisplay.getNextExpectedCharacter(): "null" for null
getNextExpectedCharacter(s) ==
  IF Len(s.typedText) < Len(s.fullText)
  THEN s.fullText[Len(s.typedText) + 1]
  ELSE "null"

\* TypingTextDisplay.typeCharacter(char): state and returned value
DisplayTypeCharacter(s, char) ==
  LET nextExpectedChar == getNextExpectedCharacter(s)
  IN IF nextExpectedChar # "null"
        /\ toLowerCase(nextExpectedChar) = toLowerCase(char)
     THEN [state |-> [s EXCEPT !.typedText = Append(@, nextExpectedChar)],
           ok |-> TRUE]
     ELSE [state |-> s, ok |-> FALSE]

\* TypingTextDisplay.backspace()
DisplayBackspace(s) ==
  IF Len(s.typedText) > 0
  THEN [s EXCEPT !.typedText = SubSeq(@, 1, Len(@) - 1)]
  ELSE s

\* TypingTextDisplay.isCurrentWordCompleted()
isCurrentWordCompleted(s) ==
  getNextExpectedCharacter(s) \in {" ", "null"}

\* String.prototype.lastIndexOf(" "), 0-based, -1 when absent
lastIndexOfSpace(t) ==
  LET hits == {i \in 1..Len(t) : t[i] = " "}
  IN IF hits = {} THEN 0 - 1
     ELSE (CHOOSE i \in hits : \A j \in hits : j <= i) - 1

\* String.prototype.indexOf(" ", from), 0-based, -1 when absent
indexOfSpace(t, from) ==
  LET hits == {i \in 1..Len(t) : t[i] = " " /\ i - 1 >= from}
  IN IF hits = {} THEN 0 - 1
     ELSE (CHOOSE i \in hits : \A j \in hits : i <= j) - 1

\* TypingTextDisplay.getCurrentWord()
getCurrentWord(s) ==
  LET lastSpaceIndex == lastIndexOfSpace(s.typedText)
      wordStart == IF lastSpaceIndex = 0 - 1 THEN 0 ELSE lastSpaceIndex + 1
      found == indexOfSpace(s.fullText, wordStart)
      wordEnd == IF found = 0 - 1 THEN Len(s.fullText) ELSE found
  IN SubSeq(s.fullText, wordStart + 1, wordEnd)

\* TypingTextDisplay.completeCurrentWord(): state and returned word;
\* the null result is reported by isNull
completeCurrentWord(s) ==
  IF ~isCurrentWordCompleted(s)
  THEN [state |-> s, word |-> << >>, isNull |-> TRUE]
  ELSE [state |-> IF getNextExpectedCharacter(s) = " "
                  THEN [s EXCEPT !.typedText = Append(@, " ")]
                  ELSE s,
        word |-> getCurrentWord(s), isNull |-> FALSE]

\* TypingTextDisplay.reset()
DisplayReset(s) == [s EXCEPT !.fullText = << >>, !.typedText = << >>]

\* ------------------------------------------------------------------ Boss
\* Boss.setHealth(health)
setHealth(s, health) ==
  [s EXCEPT !.bossMaxHealth = health, !.bossHealth = health,
            !.bossDefeated = FALSE]

\* Boss.takeDamage(wordLength), with Boss.defeat() arming its timer
takeDamage(s, wordLength) ==
  IF s.bossDefeated THEN s
  ELSE LET h == Max(0, s.bossHealth - (wordLength + 1))
       IN [s EXCEPT !.bossHealth = h,
                    !.bossDefeated = (h <= 0),
                    !.defeatTimer = (h <= 0)]

\* Boss.reset()
BossReset(s) ==
  [s EXCEPT !.bossHealth = s.bossMaxHealth, !.bossDefeated = FALSE]

\* MainScreen.checkPlayerMessageCollisions()
RECURSIVE checkCollisionsFrom(_, _)
checkCollisionsFrom(s, k) ==
  IF k > Len(s.activeWords) THEN s
  ELSE LET id == s.activeWords[k]
           word == s.words[id]
       IN IF word.isPlayerMessage
             /\ word.x >= MONSTER_X - BossHitRange
             /\ ~word.isCompleted
          THEN checkCollisionsFrom(
                 [takeDamage(s, Len(word.targetText))
                    EXCEPT !.words[id].isCompleted = TRUE], k + 1)
          ELSE checkCollisionsFrom(s, k + 1)

checkPlayerMessageCollisions(s) == checkCollisionsFrom(s, 1)

\* MainScreen.update(time) with the screen not paused
MainScreenUpdate(s, dt, randomIndex) ==
  LET s1 == SpawnerUpdate(s, dt, randomIndex)
  IN IF s1.bossVisible THEN checkPlayerMessageCollisions(s1) ELSE s1

\* ----------------------------------------------------------- Input Router
\* Variant of handleLevel12CharacterTyped: a wrong character for the active
\* entity falls through to the search for another entity.
handleLevel12CharacterTyped_switchesOnMiss(s, char) ==
  LET lowerChar == toLowerCase(char)
      activeWord == getActiveWord(s)
  IN IF activeWord # NoWord /\ ~s.words[activeWord].isCompleted
        /\ getNextCharacter(s.words[activeWord]) = lowerChar
     THEN processActiveWordInput(
            [s EXCEPT !.currentInput = Append(@, lowerChar)],
            activeWord, lowerChar)
     ELSE LET potentialInput == <<lowerChar>>
              matchingWord == findMatchingWord(s, potentialInput)
          IN IF matchingWord # NoWord
             THEN processActiveWordInput(
                    setActiveWord([s EXCEPT !.currentInput = potentialInput],
                                  matchingWord),
                    matchingWord, lowerChar)
             ELSE s

\* Variant of handleLevel12CharacterTyped: a character that matches nothing
\* is still appended to the input.
handleLevel12CharacterTyped_buffersUnmatched(s, char) ==
  LET lowerChar == toLowerCase(char)
      activeWord == getActiveWord(s)
  IN IF activeWord # NoWord /\ ~s.words[activeWord].isCompleted
     THEN IF getNextCharacter(s.words[activeWord]) = lowerChar
          THEN processActiveWordInput(
                 [s EXCEPT !.currentInput = Append(@, lowerChar)],
                 activeWord, lowerChar)
          ELSE s
     ELSE LET potentialInput == Append(s.currentInput, lowerChar)
              matchingWord == findMatchingWord(s, potentialInput)
          IN IF matchingWord # NoWord
             THEN processActiveWordInput(
                    setActiveWord([s EXCEPT !.currentInput = potentialInput],
                                  matchingWord),
                    matchingWord, lowerChar)
             ELSE [s EXCEPT !.currentInput = potentialInput]

\* MainScreen.handleLevel12CharacterTyped(char)
handleLevel12CharacterTyped(s, char) ==
  LET lowerChar == toLowerCase(char)
      activeWord == getActiveWord(s)
  IN IF activeWord # NoWord /\ ~s.words[activeWord].isCompleted
     THEN IF getNextCharacter(s.words[activeWord]) = lowerChar
          THEN processActiveWordInput(
                 [s EXCEPT !.currentInput = Append(@, lowerChar)],
                 activeWord, lowerChar)
          ELSE s
     ELSE LET potentialInput == Append(s.currentInput, lowerChar)
              matchingWord == findMatchingWord(s, potentialInput)
          IN IF matchingWord # NoWord
             THEN processActiveWordInput(
                    setActiveWord([s EXCEPT !.currentInput = potentialInput],
                                  matchingWord),
                    matchingWord, lowerChar)
             ELSE s

\* MainScreen.handleLevel3SpacePressed()
handleLevel3SpacePressed(s) ==
  LET r == completeCurrentWord(s)
  IN IF ~r.isNull /\ r.word # << >>
     THEN spawnPlayerMessage(r.state, r.word)
     ELSE r.state

\* MainScreen.handleLevel3CharacterTyped(char)
handleLevel3CharacterTyped(s, char) ==
  IF char = " " THEN handleLevel3SpacePressed(s)
  ELSE DisplayTypeCharacter(s, char).state

\* MainScreen.handleCharacterTyped(char)
handleCharacterTyped(s, char) ==
  IF s.currentLevel = 3 THEN handleLevel3CharacterTyped(s, char)
  ELSE handleLevel12CharacterTyped(s, char)

\* Variant of handleBackspace: every backspace deactivates the active Word.
handleBackspace_alwaysDeactivates(s) ==
  IF s.currentLevel = 3 THEN DisplayBackspace(s)
  ELSE IF Len(s.currentInput) > 0
       THEN setActiveWord(
              [s EXCEPT !.currentInput = SubSeq(@, 1, Len(@) - 1)], NoWord)
       ELSE s

\* Variant of handleBackspace: emptying the input rolls the active Word back.
handleBackspace_rollsBack(s) ==
  IF s.currentLevel = 3 THEN DisplayBackspace(s)
  ELSE IF Len(s.currentInput) > 0
       THEN LET s1 == [s EXCEPT !.currentInput = SubSeq(@, 1, Len(@) - 1)]
                active == getActiveWord(s1)
            IN IF Len(s1.currentInput) = 0
               THEN setActiveWord(
                      IF active # NoWord
                      THEN [s1 EXCEPT !.words[active] = resetProgress(@)]
                      ELSE s1, NoWord)
               ELSE s1
       ELSE s

\* MainScreen.handleBackspace()
handleBackspace(s) ==
  IF s.currentLevel = 3 THEN DisplayBackspace(s)
  ELSE IF Len(s.currentInput) > 0
       THEN LET s1 == [s EXCEPT !.currentInput = SubSeq(@, 1, Len(@) - 1)]
            IN IF Len(s1.currentInput) = 0
               THEN setActiveWord(s1, NoWord)
               ELSE s1
       ELSE s

\* Variant of handleEscape: only the input is cleared.
handleEscape_keepsActive(s) == [s EXCEPT !.currentInput = << >>]

\* Variant of handleEscape: escape restarts every live Word.
handleEscape_resetsWords(s) ==
  clearInput([s EXCEPT !.words =
                [i \in DOMAIN s.words |-> resetProgress(s.words[i])]])

\* MainScreen.handleEscape()
handleEscape(s) == clearInput(s)

\* Variant of handleKeyDown: only escape looks at the enabled gate.
handleKeyDown_ungatedTyping(s, key) ==
  IF key = "Backspace" THEN handleBackspace(s)
  ELSE IF key = "Escape" THEN (IF s.isEnabled THEN handleEscape(s) ELSE s)
  ELSE handleCharacterTyped(s, toLowerCase(key))

\* InputManager.handleKeyDown(event); key stands for event.key
handleKeyDown(s, key) ==
  IF ~s.isEnabled THEN s
  ELSE IF key = "Backspace" THEN handleBackspace(s)
  ELSE IF key = "Escape" THEN handleEscape(s)
  ELSE handleCharacterTyped(s, toLowerCase(key))

\* MainScreen.handleBossDefeated(): the part before the first await
handleBossDefeated(s) ==
  [stopSpawning(s) EXCEPT !.isEnabled = FALSE, !.defeatTimer = FALSE]

\* MainScreen.setupLevelComponents(); bossText is the getRandomText() draw
setupLevelComponents(s, bossText) ==
  IF s.currentLevel = 3
  THEN setHealth([s EXCEPT !.bossVisible = TRUE, !.fullText = bossText,
                           !.typedText = << >>], Len(bossText))
  ELSE [s EXCEPT !.completedMessages = 0,
                 !.totalMessagesInLevel = s.totalMessages,
                 !.bossVisible = FALSE]

\* MainScreen.show()
MainScreenShow(s, bossText) ==
  startSpawning(resetForLevel(setupLevelComponents(s, bossText)))

\* MainScreen.reset()
MainScreenReset(s) ==
  LET s1 == resetForLevel(clearAllWords(clearInput(
              [s EXCEPT !.score = 0, !.lives = PLAYER_LIVES])))
      s2 == BossReset(DisplayReset(
              [s1 EXCEPT !.completedMessages = 0,
                         !.totalMessagesInLevel = 0]))
      s3 == [s2 EXCEPT !.bossVisible = FALSE, !.isEnabled = TRUE,
                       !.gameOverCount = 0]
  IN IF s3.transitioningToLevel = 0 THEN GameStateReset(s3) ELSE s3

\* ----------------------------------------------------------------- state
VARIABLES
  words,                \* id -> Word, for the Words in activeWords
  activeWords,          \* WordSpawner.activeWords (ids, insertion order)
  nextId,               \* identity of the next constructed Word
  remainingMessages,    \* WordSpawner.remainingMessages
  totalMessages,        \* WordSpawner.totalMessages
  spawnTimer,           \* WordSpawner.spawnTimer (ms)
  spawnInterval,        \* WordSpawner.spawnInterval (ms)
  currentDifficulty,    \* WordSpawner.currentDifficulty
  maxWords,             \* WordSpawner.maxWords
  isSpawning,           \* WordSpawner.isSpawning
  currentLevel,         \* GameState.currentLevel
  levelProgress,        \* GameState.levelProgress
  transitioningToLevel, \* GameState.transitioningToLevel (0 = null)
  score,                \* MainScreen.score
  lives,                \* MainScreen.lives
  currentInput,         \* MainScreen.currentInput
  completedMessages,    \* MainScreen.completedMessages
  totalMessagesInLevel, \* MainScreen.totalMessagesInLevel
  isEnabled,            \* InputManager.isEnabled
  fullText,             \* TypingTextDisplay.fullText
  typedText,            \* TypingTextDisplay.typedText
  bossVisible,          \* Boss.visible
  bossHealth,           \* Boss.currentHealth
  bossMaxHealth,        \* Boss.maxHealth
  bossDefeated,         \* Boss.isDefeated
  defeatTimer,          \* the setTimeout armed by Boss.defeat() is pending
  advanceSignals,       \* onLevelAdvance emissions since initializeLevel
  gameOverCount,        \* gameOver() calls since MainScreen.reset()
  lastCall,             \* the Word.typeCharacter call of the latest step, if any
  removedWords,         \* id -> Word as cleanupWords removed it in the latest step
  timedSpawns           \* spawnWord() spawns since initializeLevel

vars ==
  << words, activeWords, nextId, remainingMessages, totalMessages,
     spawnTimer, spawnInterval, currentDifficulty, maxWords, isSpawning,
     currentLevel, levelProgress, transitioningToLevel, score, lives,
     currentInput, completedMessages, totalMessagesInLevel, isEnabled,
     fullText, typedText, bossVisible, bossHealth, bossMaxHealth,
     bossDefeated, defeatTimer, advanceSignals, gameOverCount, lastCall,
     removedWords, timedSpawns >>

\* The current state as one record, so that handlers compose.
St ==
  [words |-> words, activeWords |-> activeWords, nextId |-> nextId,
   remainingMessages |-> remainingMessages, totalMessages |-> totalMessages,
   spawnTimer |-> spawnTimer, spawnInterval |-> spawnInterval,
   currentDifficulty |-> currentDifficulty, maxWords |-> maxWords,
   isSpawning |-> isSpawning, currentLevel |-> currentLevel,
   levelProgress |-> levelProgress,
   transitioningToLevel |-> transitioningToLevel,
   score |-> score, lives |-> lives, currentInput |-> currentInput,
   completedMessages |-> completedMessages,
   totalMessagesInLevel |-> totalMessagesInLevel, isEnabled |-> isEnabled,
   fullText |-> fullText, typedText |-> typedText,
   bossVisible |-> bossVisible, bossHealth |-> bossHealth,
   bossMaxHealth |-> bossMaxHealth, bossDefeated |-> bossDefeated,
   defeatTimer |-> defeatTimer, advanceSignals |-> advanceSignals,
   gameOverCount |-> gameOverCount, lastCall |-> lastCall,
   removedWords |-> removedWords, timedSpawns |-> timedSpawns]

\* The state a handler starts from: no typeCharacter call made yet and
\* nothing removed yet.
Cur == [St EXCEPT !.lastCall = << >>, !.removedWords = NoWords]

\* Field initialisers of WordSpawner, MainScreen, GameState, Boss.
Constructed ==
  [words |-> NoWords, activeWords |-> << >>, nextId |-> 1,
   remainingMessages |-> << >>, totalMessages |-> 0,
   spawnTimer |-> 0, spawnInterval |-> WORD_SPAWN_INTERVAL,
   currentDifficulty |-> "easy", maxWords |-> DefaultMaxWords,
   isSpawning |-> TRUE, currentLevel |-> 1, levelProgress |-> 0,
   transitioningToLevel |-> 0, score |-> 0, lives |-> PLAYER_LIVES,
   currentInput |-> << >>, completedMessages |-> 0,
   totalMessagesInLevel |-> 0, isEnabled |-> TRUE,
   fullText |-> << >>, typedText |-> << >>, bossVisible |-> FALSE,
   bossHealth |-> 100, bossMaxHealth |-> 100, bossDefeated |-> FALSE,
   defeatTimer |-> FALSE, advanceSignals |-> 0, gameOverCount |-> 0,
   lastCall |-> << >>, removedWords |-> NoWords, timedSpawns |-> 0]

\* The variables take the value of the record s (unprimed: Init).
IsState(s) ==
  /\ words = s.words /\ activeWords = s.activeWords /\ nextId = s.nextId
  /\ remainingMessages = s.remainingMessages
  /\ totalMessages = s.totalMessages
  /\ spawnTimer = s.spawnTimer /\ spawnInterval = s.spawnInterval
  /\ currentDifficulty = s.currentDifficulty /\ maxWords = s.maxWords
  /\ isSpawning = s.isSpawning /\ currentLevel = s.currentLevel
  /\ levelProgress = s.levelProgress
  /\ transitioningToLevel = s.transitioningToLevel
  /\ score = s.score /\ lives = s.lives /\ currentInput = s.currentInput
  /\ completedMessages = s.completedMessages
  /\ totalMessagesInLevel = s.totalMessagesInLevel
  /\ isEnabled = s.isEnabled
  /\ fullText = s.fullText /\ typedText = s.typedText
  /\ bossVisible = s.bossVisible /\ bossHealth = s.bossHealth
  /\ bossMaxHealth = s.bossMaxHealth /\ bossDefeated = s.bossDefeated
  /\ defeatTimer = s.defeatTimer /\ advanceSignals = s.advanceSignals
  /\ gameOverCount = s.gameOverCount /\ lastCall = s.lastCall
  /\ removedWords = s.removedWords /\ timedSpawns = s.timedSpawns

\* The next state is the record s.
Becomes(s) ==
  /\ words' = s.words /\ activeWords' = s.activeWords /\ nextId' = s.nextId
  /\ remainingMessages' = s.remainingMessages
  /\ totalMessages' = s.totalMessages
  /\ spawnTimer' = s.spawnTimer /\ spawnInterval' = s.spawnInterval
  /\ currentDifficulty' = s.currentDifficulty /\ maxWords' = s.maxWords
  /\ isSpawning' = s.isSpawning /\ currentLevel' = s.currentLevel
  /\ levelProgress' = s.levelProgress
  /\ transitioningToLevel' = s.transitioningToLevel
  /\ score' = s.score /\ lives' = s.lives /\ currentInput' = s.currentInput
  /\ completedMessages' = s.completedMessages
  /\ totalMessagesInLevel' = s.totalMessagesInLevel
  /\ isEnabled' = s.isEnabled
  /\ fullText' = s.fullText /\ typedText' = s.typedText
  /\ bossVisible' = s.bossVisible /\ bossHealth' = s.bossHealth
  /\ bossMaxHealth' = s.bossMaxHealth /\ bossDefeated' = s.bossDefeated
  /\ defeatTimer' = s.defeatTimer /\ advanceSignals' = s.advanceSignals
  /\ gameOverCount' = s.gameOverCount /\ lastCall' = s.lastCall
  /\ removedWords' = s.removedWords /\ timedSpawns' = s.timedSpawns

\* The model stays inside its caps.
WithinBounds(s) ==
  /\ s.nextId <= MaxEntities + 1
  /\ s.spawnTimer <= MaxSpawnTimer
  /\ s.advanceSignals <= MaxAdvanceSignals

\* new MainScreen() at GameState.currentLevel = 1, then MainScreen.show()
Init ==
  \E bossText \in Level3Texts :
    IsState(MainScreenShow(initializeLevel(Constructed), bossText))

\* --------------------------------------------------------------- actions
\* One frame: MainScreen.update(time)
Tick(dt, randomIndex) ==
  LET s == MainScreenUpdate(Cur, dt, randomIndex)
  IN WithinBounds(s) /\ Becomes(s)

\* InputManager.handleKeyDown for a character key
KeyChar(key) ==
  LET s == handleKeyDown(Cur, key)
  IN WithinBounds(s) /\ Becomes(s)

\* InputManager.handleKeyDown for Backspace
KeyBackspace == Becomes(handleKeyDown(Cur, "Backspace"))

\* InputManager.handleKeyDown for Escape
KeyEscape == Becomes(handleKeyDown(Cur, "Escape"))

\* LevelIntroScreen.startLevel(): the main screen was reset when it was
\* hidden, the transition completes, and the main screen is shown again.
StartLevel(bossText) ==
  /\ transitioningToLevel # 0
  /\ Becomes(MainScreenShow(completeLevelTransition(MainScreenReset(Cur)),
                            bossText))

\* GameOverScreen.restartGame(): the main screen, reset when it was hidden,
\* is shown again.
RestartGame(bossText) ==
  /\ gameOverCount > 0
  /\ Becomes(MainScreenShow(MainScreenReset(Cur), bossText))

\* The timer armed by Boss.defeat() fires onDefeated.
BossDefeatedTimeout ==
  /\ defeatTimer
  /\ Becomes(handleBossDefeated(Cur))

\* wordSpawner.startSpawning(), a public operation
StartSpawning == Becomes(startSpawning(Cur))

\* wordSpawner.stopSpawning(), a public operation
StopSpawning == Becomes(stopSpawning(Cur))

Next ==
  \/ \E dt \in Dts :
       \E randomIndex \in 1..Max(1, Len(remainingMessages)) :
         Tick(dt, randomIndex)
  \/ \E key \in Keys : KeyChar(key)
  \/ KeyBackspace
  \/ KeyEscape
  \/ \E bossText \in Level3Texts : StartLevel(bossText)
  \/ \E bossText \in Level3Texts : RestartGame(bossText)
  \/ BossDefeatedTimeout

Spec == Init /\ [][Next]_vars

\* ----------------------------------------------------------- type check
TypeOK ==
  /\ DOMAIN words = {activeWords[k] : k \in 1..Len(activeWords)}
  /\ nextId \in 1..(MaxEntities + 1)
  /\ currentLevel \in 1..3
  /\ transitioningToLevel \in 0..3

\* ------------------------------------------- the Word entity on its own
\* Word.typeCharacter and Word.setActive are public; this specification
\* applies them to one Word in any state its flags allow.
WordTexts ==
  { <<"a", "b">>, <<"a", "a">>, <<"b">>, <<"b", "a">>, <<"A", "b">> }

WordChars == {"a", "b", "A"}

WordStates ==
  { [NewWord(t, WORD_SPEED, WORD_SPAWN_X)
       EXCEPT !.typedProgress = n, !.okCalls = n,
              !.isCompleted = (n = Len(t)),
              !.isActive = act /\ n < Len(t),
              !.hasReachedEdge = edge] :
      t \in WordTexts, n \in 0..2, act \in BOOLEAN, edge \in BOOLEAN }

InitWord ==
  \E w \in {v \in WordStates : v.typedProgress <= Len(v.targetText)} :
    IsState([Constructed EXCEPT !.words = (1 :> w),
                                !.activeWords = <<1>>,
                                !.nextId = 2])

\* word.typeCharacter(char)
WordTypeCharacter(char) == Becomes(callTypeCharacter(Cur, 1, char))

\* word.setActive(active)
WordSetActive(active) ==
  Becomes([Cur EXCEPT !.words[1] = setActive(@, active)])

NextWord ==
  \/ \E char \in WordChars : WordTypeCharacter(char)
  \/ \E active \in BOOLEAN : WordSetActive(active)

SpecWord == InitWord /\ [][NextWord]_vars

\* ------------------------------- the WordSpawner with a configured cap
\* setMaxWords is public and has no caller in MainScreen; this specification
\* lets the host set the cap once, before the first frame, and then runs the
\* frames and keystrokes of one level.
MaxWordsChoices == {1, 2, DefaultMaxWords}

InitCapped ==
  \E maxW \in MaxWordsChoices : \E bossText \in Level3Texts :
    IsState(MainScreenShow(setMaxWords(initializeLevel(Constructed), maxW),
                           bossText))

NextCapped ==
  \/ \E dt \in Dts :
       \E randomIndex \in 1..Max(1, Len(remainingMessages)) :
         Tick(dt, randomIndex)
  \/ \E key \in Keys : KeyChar(key)

SpecCapped == InitCapped /\ [][NextCapped]_vars

\* --------------------- the WordSpawner of utils/userSettings.ts as it is
\* WordSpawner.handleLevelComplete() of that file: the advancement is
\* commented out and the method only logs.
handleLevelCompleteLogOnly(s) == s

\* WordSpawner.cleanupWords() calling that handleLevelComplete
cleanupWordsLogOnly(s) ==
  LET keep == {i \in DOMAIN s.words :
                 ~(s.words[i].isCompleted \/ s.words[i].hasReachedEdge)}
      s1 == [s EXCEPT !.activeWords = FilterSeq(@, keep),
                      !.words = [i \in keep |-> s.words[i]],
                      !.removedWords =
                        [i \in (DOMAIN s.words) \ keep |-> s.words[i]]]
  IN IF Len(s1.remainingMessages) = 0 /\ Len(s1.activeWords) = 0
     THEN handleLevelCompleteLogOnly(s1)
     ELSE s1

\* WordSpawner.update(deltaTime) with that cleanup pass
SpawnerUpdateLogOnly(s, dt, randomIndex) ==
  LET s1 == [s EXCEPT !.spawnTimer = @ + dt * 1000]
      s2 == IF s1.isSpawning /\ s1.spawnTimer >= s1.spawnInterval
               /\ Len(s1.activeWords) < s1.maxWords
            THEN [spawnWord(s1, randomIndex) EXCEPT !.spawnTimer = 0]
            ELSE s1
  IN cleanupWordsLogOnly(updateWords(s2, dt))

\* ------------------------------------------ frames without a player
\* The cap is set once before the first frame, as above, and MainScreen's
\* ticker then calls update frame after frame while no key is pressed.
\* The ticker never stops, so a frame that can run eventually runs.
InitIdle == InitCapped

NextIdle ==
  \E dt \in Dts :
    \E randomIndex \in 1..Max(1, Len(remainingMessages)) :
      Tick(dt, randomIndex)

\* ENABLED <<NextIdle>>_vars as a state predicate: some frame changes the
\* state and stays inside the caps.
CanTick ==
  \E dt \in Dts :
    \E randomIndex \in 1..Max(1, Len(remainingMessages)) :
      LET s == MainScreenUpdate(Cur, dt, randomIndex)
      IN WithinBounds(s) /\ s # St

\* WF_vars(NextIdle), with its ENABLED written as CanTick.
TickerFairness == []<>(~CanTick) \/ []<><<NextIdle>>_vars

SpecIdle == InitIdle /\ [][NextIdle]_vars /\ TickerFairness

\* ------------------------------------ a level with more entries than lives
\* messages.json is data: the number of entries of a level is not fixed by
\* the code.  This specification starts level 1 from a data file with four
\* entries, one more than PLAYER_LIVES, and runs its frames and keystrokes.
LongLevelMessages ==
  << [text |-> <<"a", "b">>, author |-> "mentor", level |-> 1],
     [text |-> <<"a", "a">>, author |-> "mentor", level |-> 1],
     [text |-> <<"b">>,      author |-> "mentor", level |-> 1],
     [text |-> <<"a">>,      author |-> "mentor", level |-> 1] >>

InitLongLevel ==
  \E bossText \in Level3Texts :
    IsState([MainScreenShow(initializeLevel(Constructed), bossText)
               EXCEPT !.remainingMessages = LongLevelMessages,
                      !.totalMessages = Len(LongLevelMessages),
                      !.totalMessagesInLevel = Len(LongLevelMessages)])

NextLongLevel ==
  \/ \E dt \in Dts :
       \E randomIndex \in 1..Max(1, Len(remainingMessages)) :
         Tick(dt, randomIndex)
  \/ \E key \in Keys : KeyChar(key)

SpecLongLevel == InitLongLevel /\ [][NextLongLevel]_vars

\* --------------------------------- the WordSpawner under any host
\* startSpawning, stopSpawning, setDifficulty, setMaxWords, resetForLevel
\* and spawnPlayerMessage are public.  This specification starts from a
\* spawner a few frames into level 1 (nothing spawned yet, one entity live,
\* that entity partly typed, a second spawn attempted, the first entity
\* typed to its end) and lets a host call the public operations in any
\* order.
PlayerTexts == { <<"a">>, <<"b">> }

FreshSpawner(maxW, difficulty) ==
  MainScreenShow(
    setDifficulty(setMaxWords(initializeLevel(Constructed), maxW),
                  difficulty),
    CHOOSE bossText \in Level3Texts : TRUE)

SpawnerSamples ==
  UNION { LET fresh == FreshSpawner(maxW, difficulty)
              one == MainScreenUpdate(fresh, 3, 1)
              typed == handleCharacterTyped(one, "a")
              two == MainScreenUpdate(typed, 3, 1)
              done == handleCharacterTyped(two, "b")
          IN {fresh, one, typed, two, done} :
          maxW \in MaxWordsChoices, difficulty \in Difficulties }

InitSpawner == \E s \in SpawnerSamples : IsState(s)

\* The host's calls stay inside the caps of this specification.
WithinSpawnerBounds(s) == s.nextId <= MaxSpawnerEntities + 1

\* wordSpawner.setDifficulty(difficulty)
SetDifficulty(difficulty) == Becomes(setDifficulty(Cur, difficulty))

\* wordSpawner.setMaxWords(maxWords)
SetMaxWords(maxW) == Becomes(setMaxWords(Cur, maxW))

\* wordSpawner.resetForLevel()
ResetForLevel == Becomes(resetForLevel(Cur))

\* wordSpawner.spawnPlayerMessage(text)
SpawnPlayerMessage(text) ==
  LET s == spawnPlayerMessage(Cur, text)
  IN WithinSpawnerBounds(s) /\ Becomes(s)

NextSpawner ==
  \/ \E difficulty \in Difficulties : SetDifficulty(difficulty)
  \/ \E maxW \in MaxWordsChoices : SetMaxWords(maxW)
  \/ ResetForLevel
  \/ \E text \in PlayerTexts : SpawnPlayerMessage(text)
  \/ StartSpawning
  \/ StopSpawning

SpecSpawner == InitSpawner /\ [][NextSpawner]_vars

\* ---------------------------------------------------------------- claims
LiveIds == DOMAIN words

\* C1: at most one entity of the live collection is active, after any
\* sequence of keystrokes, ticks, spawns and resets.
Inv_C1_AtMostOneActive ==
  Cardinality({i \in LiveIds : words[i].isActive}) <= 1

\* An entity is active while another entity is live beside it.
Wit_C1 ==
  /\ Len(activeWords) >= 2
  /\ \E i \in LiveIds : words[i].isActive

\* C2: every live entity has 0 <= typedProgress <= length(targetText).
Inv_C2_ProgressInRange ==
  \A i \in LiveIds :
    /\ 0 <= words[i].typedProgress
    /\ words[i].typedProgress <= Len(words[i].targetText)

\* An entity was typed to the end of its text.
Wit_C2 ==
  \E i \in LiveIds :
    /\ words[i].typedProgress = Len(words[i].targetText)
    /\ words[i].okCalls > 0

\* C3: once isCompleted is true it stays true and typedProgress does not
\* change, whatever step follows.
Prop_C3_CompletedIsFinal ==
  [][\A i \in (DOMAIN words) \cap (DOMAIN words') :
       words[i].isCompleted =>
         /\ words'[i].isCompleted
         /\ words'[i].typedProgress = words[i].typedProgress]_vars

\* A completed entity is still live while a later keystroke has activated
\* another entity.
Wit_C3 ==
  \E i, j \in LiveIds :
    /\ i # j
    /\ words[i].isCompleted /\ words[i].completedSeen > 0
    /\ words[j].isActive

\* C4 as stated: a completed entity was typed to the end of its text, player
\* messages of the boss battle included.
Inv_C4_CompletedMeansTyped ==
  \A i \in LiveIds :
    words[i].isCompleted =>
      words[i].typedProgress = Len(words[i].targetText)

\* C4 amended: an entity that is not a player message is completed exactly
\* when typeCharacter has returned true on it length(targetText) times, and
\* its typedProgress is that count.
Inv_C4_TypedEntities ==
  \A i \in LiveIds :
    ~words[i].isPlayerMessage =>
      /\ words[i].typedProgress = words[i].okCalls
      /\ words[i].isCompleted <=>
           (words[i].okCalls = Len(words[i].targetText))

\* A queue-spawned entity was completed by typing all of its characters.
Wit_C4 ==
  \E i \in LiveIds :
    /\ ~words[i].isPlayerMessage
    /\ words[i].isCompleted
    /\ words[i].okCalls = Len(words[i].targetText)

\* C5: typeCharacter on a completed or inactive entity returns false and
\* leaves typedProgress and the three flags as they were.
Inv_C5_NoOpWhenIneligible ==
  lastCall # << >> =>
    LET c == lastCall[1]
    IN (c.before.isCompleted \/ ~c.before.isActive) =>
         /\ ~c.ok
         /\ c.after.typedProgress = c.before.typedProgress
         /\ c.after.isActive = c.before.isActive
         /\ c.after.isCompleted = c.before.isCompleted
         /\ c.after.hasReachedEdge = c.before.hasReachedEdge

\* typeCharacter was called with the expected character on an entity that
\* is inactive or completed.
Wit_C5 ==
  /\ lastCall # << >>
  /\ lastCall[1].before.isCompleted \/ ~lastCall[1].before.isActive
  /\ \/ lastCall[1].before.isCompleted
     \/ lastCall[1].char = getNextCharacter(lastCall[1].before)

\* C6: no step lowers the typedProgress of an entity.
Prop_C6_ProgressMonotone ==
  [][\A i \in (DOMAIN words) \cap (DOMAIN words') :
       words'[i].typedProgress >= words[i].typedProgress]_vars

\* An entity with typed characters was deactivated (backspace or escape
\* emptied the input) and kept its progress.
Wit_C6 ==
  /\ currentInput = << >>
  /\ \E i \in LiveIds :
       /\ words[i].typedProgress > 0
       /\ ~words[i].isActive /\ ~words[i].isCompleted

\* C7: on an active, non-completed entity typeCharacter(ch) returns true
\* exactly when ch is the expected character; true advances typedProgress
\* by one and completes exactly at the end of the text; false changes
\* nothing.
Inv_C7_TypeCharacterResult ==
  lastCall # << >> =>
    LET c == lastCall[1]
        b == c.before
        a == c.after
    IN (b.isActive /\ ~b.isCompleted) =>
         /\ c.ok <=> (/\ b.typedProgress < Len(b.targetText)
                      /\ c.char = b.targetText[b.typedProgress + 1])
         /\ c.ok =>
              /\ a.typedProgress = b.typedProgress + 1
              /\ a.isCompleted <=> (a.typedProgress = Len(a.targetText))
         /\ ~c.ok =>
              /\ a.typedProgress = b.typedProgress
              /\ a.isActive = b.isActive
              /\ a.isCompleted = b.isCompleted

\* The last character of an active entity was typed and completed it.
Wit_C7 ==
  /\ lastCall # << >>
  /\ lastCall[1].before.isActive /\ ~lastCall[1].before.isCompleted
  /\ lastCall[1].ok /\ lastCall[1].after.isCompleted

\* The prefixes the input router can ask for.
Prefixes ==
  {<< >>} \cup {<<a>> : a \in {"a", "b"}}
          \cup {<<a, b>> : a \in {"a", "b"}, b \in {"a", "b"}}

\* Positions of the live, non-completed entities whose text starts with p.
Candidates(p) ==
  {k \in 1..Len(activeWords) :
     /\ ~words[activeWords[k]].isCompleted
     /\ startsWith(words[activeWords[k]].targetText, p)}

\* C8: findMatchingWord(prefix) is null when no live, non-completed entity
\* starts with prefix, and otherwise the first such entity in collection
\* order; it is never a completed entity.
Inv_C8_FirstMatch ==
  \A p \in Prefixes :
    LET found == findMatchingWord(St, p)
    IN /\ (Candidates(p) = {}) <=> (found = NoWord)
       /\ found # NoWord =>
            /\ ~words[found].isCompleted
            /\ \E k \in Candidates(p) :
                 /\ found = activeWords[k]
                 /\ \A j \in Candidates(p) : k <= j

\* Two live, non-completed entities start with "a", and the first of them
\* was found and activated by the keystroke "a".
Wit_C8 ==
  /\ Cardinality(Candidates(<<"a">>)) >= 2
  /\ currentInput = <<"a">>
  /\ words[findMatchingWord(St, <<"a">>)].isActive

\* C9 as stated: the level-advance callback is emitted at most once for one
\* completion of a level, however many updates follow.
Inv_C9_AdvanceOnce == advanceSignals <= 1

\* C10: an update signals level completion only if it ends with the queue
\* and the live collection both empty.
Prop_C10_AdvanceOnlyWhenEmpty ==
  [][advanceSignals' > advanceSignals =>
       /\ Len(remainingMessages') = 0
       /\ Len(activeWords') = 0
       /\ transitioningToLevel' = currentLevel' + 1]_vars

\* Level completion was signalled.
Wit_C10 ==
  /\ advanceSignals >= 1
  /\ transitioningToLevel # 0
  /\ Len(remainingMessages) = 0 /\ Len(activeWords) = 0

\* C11 as stated: the completion handler runs exactly once for an entity
\* that becomes completed, whether the entity is still live or was removed
\* by the latest update.
Inv_C11_ObservedOnce ==
  /\ \A i \in LiveIds : words[i].completedSeen <= 1
  /\ \A i \in DOMAIN removedWords :
       removedWords[i].isCompleted => removedWords[i].completedSeen = 1

\* n updates of one spawn interval each, with the random draws rs; the run
\* stops at the first update that removes an entity.
RECURSIVE SpawnRun(_, _)
SpawnRun(s, rs) ==
  IF rs = << >> THEN s
  ELSE LET s1 == SpawnerUpdate([s EXCEPT !.removedWords = NoWords],
                               s.spawnInterval \div 1000, Head(rs))
       IN IF DOMAIN s1.removedWords # {} THEN s1
          ELSE SpawnRun(s1, Tail(rs))

\* C12: from an empty live collection with n queued entries, a cap of at
\* least n and spawning enabled, n updates of dt = spawnInterval leave n
\* live entities and an empty queue, unless an entity was removed meanwhile.
Inv_C12_OneSpawnPerInterval ==
  LET n == Len(remainingMessages)
  IN (/\ n > 0 /\ activeWords = << >> /\ isSpawning /\ maxWords >= n
      /\ spawnInterval % 1000 = 0) =>
       \A rs \in [1..n -> 1..n] :
         LET r == SpawnRun(St, rs)
         IN DOMAIN r.removedWords = {} =>
              /\ Len(r.activeWords) = n
              /\ r.remainingMessages = << >>

\* Three updates of one interval each have spawned the three entries of the
\* level and nothing was typed or removed.
Wit_C12 ==
  /\ totalMessages = 3 /\ maxWords >= 3
  /\ Len(activeWords) = 3 /\ remainingMessages = << >>
  /\ spawnTimer = 0
  /\ \A i \in LiveIds : words[i].typedProgress = 0

\* C13: with the cap fixed and timed spawns only, the live entities never
\* outnumber the cap.
Inv_C13_LiveWithinCap == Len(activeWords) <= maxWords

\* The cap is binding: a spawn is due and the queue is not empty, but the
\* live collection is full.
Wit_C13 ==
  /\ Len(activeWords) = maxWords
  /\ Len(remainingMessages) > 0
  /\ isSpawning /\ spawnTimer >= spawnInterval

\* The live entities and everything else but the difficulty pair.
ExceptDifficulty(s) ==
  [s EXCEPT !.currentDifficulty = "easy", !.spawnInterval = 0]

\* C14: setDifficulty changes the difficulty and the spawn interval and
\* nothing else, so every live entity keeps its speed, velocity, position,
\* progress and flags; the next spawn takes the new speed.
Inv_C14_DifficultyNotRetroactive ==
  \A difficulty \in Difficulties :
    LET s == setDifficulty(St, difficulty)
    IN /\ s.words = words
       /\ s.activeWords = activeWords
       /\ ExceptDifficulty(s) = ExceptDifficulty(St)
       /\ s.spawnInterval = DIFFICULTY_LEVELS[difficulty].spawnInterval
       /\ LET t == spawnPlayerMessage(s, <<"a">>)
              q == spawnWord(s, 1)
          IN /\ t.words[s.nextId].speed
                  = DIFFICULTY_LEVELS[difficulty].wordSpeed
             /\ Len(remainingMessages) > 0 =>
                  /\ q.words[s.nextId].speed
                       = DIFFICULTY_LEVELS[difficulty].wordSpeed
                  /\ q.words[s.nextId].velocityX
                       = 0 - DIFFICULTY_LEVELS[difficulty].wordSpeed

\* The difficulty was changed while an entity spawned at another speed is
\* live, and that entity kept its speed.
Wit_C14 ==
  \E i \in LiveIds :
    /\ ~words[i].isPlayerMessage
    /\ words[i].speed # getSpeedForDifficulty(St)
    /\ words[i].velocityX = 0 - words[i].speed

Inv_C16_PlayerMessageSpawn ==
  \A text \in PlayerTexts :
    LET s == spawnPlayerMessage(St, text)
        id == s.activeWords[Len(s.activeWords)]
    IN /\ Len(s.activeWords) = Len(activeWords) + 1
       /\ SubSeq(s.activeWords, 1, Len(activeWords)) = activeWords
       /\ id \notin LiveIds
       /\ DOMAIN s.words = LiveIds \cup {id}
       /\ \A i \in LiveIds : s.words[i] = words[i]
       /\ s.words[id].targetText = text
       /\ s.words[id].isPlayerMessage
       /\ s.words[id].directionMultiplier = 1
       /\ s.words[id].velocityX = s.words[id].speed
       /\ s.words[id].velocityX > 0
       /\ s.remainingMessages = remainingMessages
       /\ s.spawnTimer = spawnTimer
       /\ s.isSpawning = isSpawning

\* A player message was inserted while spawning was stopped, the live
\* collection was already at the cap and no timed spawn was due.
Wit_C16 ==
  /\ ~isSpawning /\ spawnTimer < spawnInterval
  /\ Len(activeWords) > maxWords
  /\ \E i \in LiveIds :
       /\ words[i].isPlayerMessage
       /\ words[i].x = PLAYER_MESSAGE_SPAWN_X

\* C17 as stated: on an active, non-completed entity typeCharacter(ch)
\* returns true exactly when the lower-cased ch equals the lower-cased
\* expected character.
Inv_C17_LowerCasedComparison ==
  lastCall # << >> =>
    LET c == lastCall[1]
        b == c.before
    IN (b.isActive /\ ~b.isCompleted
          /\ b.typedProgress < Len(b.targetText)) =>
         (c.ok <=> toLowerCase(c.char)
                     = toLowerCase(b.targetText[b.typedProgress + 1]))

\* C18: no entity is live with hasReachedEdge set, and an entity removed
\* by the latest update with hasReachedEdge set had the reached-edge event
\* emitted exactly once, in that update.
Inv_C18_EdgeEmittedOnce ==
  /\ \A i \in LiveIds :
       ~words[i].hasReachedEdge /\ words[i].edgeSeen = 0
  /\ \A i \in DOMAIN removedWords :
       /\ i \notin LiveIds
       /\ removedWords[i].hasReachedEdge => removedWords[i].edgeSeen = 1
       /\ ~removedWords[i].hasReachedEdge => removedWords[i].edgeSeen = 0

\* The latest update flagged an entity at the edge, emitted the event and
\* removed the entity, and the player lost a life.
Wit_C18 ==
  /\ lives < PLAYER_LIVES
  /\ \E i \in DOMAIN removedWords :
       removedWords[i].hasReachedEdge /\ removedWords[i].edgeSeen = 1

\* C19: whatever update comes next, it ends with no completed and no
\* edge-flagged entity in the live collection; and an entity that enters
\* the live collection is a newly constructed one.
Prop_C19_CleanupAndNoReentry ==
  /\ [](\A dt \in Dts :
          \A randomIndex \in 1..Max(1, Len(remainingMessages)) :
            LET s == SpawnerUpdate(Cur, dt, randomIndex)
            IN \A i \in DOMAIN s.words :
                 ~s.words[i].isCompleted /\ ~s.words[i].hasReachedEdge)
  /\ [][/\ nextId' >= nextId
        /\ \A i \in (DOMAIN words') \ (DOMAIN words) :
             i >= nextId /\ i < nextId']_vars

\* The latest update removed a completed entity and left another one live.
Wit_C19 ==
  /\ Len(activeWords) >= 1
  /\ \E i \in DOMAIN removedWords : removedWords[i].isCompleted

\* C20: one update spawns only if, after dt is added, spawning is enabled,
\* the timer has reached the interval and the live collection is below the
\* cap; it spawns at most one entity, and it sets the timer to 0 whenever
\* that condition held (otherwise the timer keeps the added time).
Inv_C20_SpawnGate ==
  \A dt \in Dts :
    \A randomIndex \in 1..Max(1, Len(remainingMessages)) :
      LET s == SpawnerUpdate(Cur, dt, randomIndex)
          due == /\ isSpawning
                 /\ spawnTimer + dt * 1000 >= spawnInterval
                 /\ Len(activeWords) < maxWords
          made == s.nextId - nextId
      IN /\ made \in {0, 1}
         /\ made = 1 => due
         /\ Len(s.remainingMessages) = Len(remainingMessages) - made
         /\ due => /\ s.spawnTimer = 0
                   /\ made = 1 <=> Len(remainingMessages) > 0
         /\ ~due => s.spawnTimer = spawnTimer + dt * 1000

\* A spawn is due after more than two intervals have gone by with the live
\* collection full, and two entries are still queued.
Wit_C20 ==
  /\ isSpawning /\ Len(activeWords) < maxWords
  /\ spawnTimer >= 2 * spawnInterval
  /\ Len(remainingMessages) >= 2

\* C21: a spawn attempt on an empty queue changes nothing: no entity, no
\* timer, counter or progress change, and no event.
Inv_C21_EmptyQueueSpawnIsNoOp ==
  Len(remainingMessages) = 0 =>
    \A randomIndex \in 1..3 : spawnWord(Cur, randomIndex) = Cur

\* The update that led here found a spawn due with the queue already empty:
\* spawning is on, the live collection is below the cap, the timer was set
\* back to 0, and entities of the level are still crossing.
Wit_C21 ==
  /\ Len(remainingMessages) = 0 /\ totalMessages > 0
  /\ isSpawning /\ spawnTimer = 0
  /\ activeWords # << >> /\ Len(activeWords) < maxWords
  /\ timedSpawns = totalMessages

\* The entities, live or removed by the latest cleanup, that a step created
\* by a timed spawn.
TimedBorn(ws, removed, firstId) ==
  {i \in DOMAIN ws \cup DOMAIN removed :
     /\ i >= firstId
     /\ ~(IF i \in DOMAIN ws THEN ws[i] ELSE removed[i]).isPlayerMessage}

\* The targetText of entity i, live or removed by the latest cleanup.
TextOf(ws, removed, i) ==
  (IF i \in DOMAIN ws THEN ws[i] ELSE removed[i]).targetText

\* A step that re-seeds the queue from the dictionary of the level.
QueueReset ==
  /\ timedSpawns' = 0
  /\ remainingMessages' = (IF currentLevel' \in {1, 2}
                            THEN getMessagesByLevel(currentLevel')
                            ELSE << >>)
  /\ totalMessages' = Len(remainingMessages')
  /\ TimedBorn(words', removedWords', nextId) = {}

\* A step without a timed spawn.
QueueKept ==
  /\ remainingMessages' = remainingMessages
  /\ totalMessages' = totalMessages
  /\ timedSpawns' = timedSpawns
  /\ TimedBorn(words', removedWords', nextId) = {}

\* A step with one timed spawn: one entry leaves the queue and one entity
\* with the text of that entry is created.
QueueSpawn ==
  \E k \in 1..Len(remainingMessages) :
    /\ remainingMessages' = Splice(remainingMessages, k)
    /\ totalMessages' = totalMessages
    /\ timedSpawns' = timedSpawns + 1
    /\ TimedBorn(words', removedWords', nextId) = {nextId}
    /\ TextOf(words', removedWords', nextId) = remainingMessages[k].text

\* C22: between resets every timed spawn removes exactly one entry from the
\* queue and creates exactly one entity with that entry's text; the queue
\* never grows and no entry is spawned twice; the timed spawns since the
\* last reset plus the queue size equal the total.
Prop_C22_QueueAccounting ==
  /\ [](timedSpawns + Len(remainingMessages) = totalMessages)
  /\ [][QueueReset \/ QueueKept \/ QueueSpawn]_vars

\* Two entries of a three-entry level have been spawned; one is queued.
Wit_C22 ==
  /\ timedSpawns = 2 /\ Len(remainingMessages) = 1 /\ totalMessages = 3

\* C23: while spawning is disabled an update adds no entity and removes no
\* queue entry, but it still advances the live entities, emits the edge and
\* completion events and removes the terminal entities.
Inv_C23_DisabledStillUpdates ==
  ~isSpawning =>
    \A dt \in Dts :
      \A randomIndex \in 1..Max(1, Len(remainingMessages)) :
        LET s == SpawnerUpdate(Cur, dt, randomIndex)
        IN /\ s.nextId = nextId
           /\ DOMAIN s.words \subseteq LiveIds
           /\ s.remainingMessages = remainingMessages
           /\ s.timedSpawns = timedSpawns
           /\ \A i \in LiveIds :
                LET w == WordUpdate(words[i], dt)
                    after == IF i \in DOMAIN s.words
                             THEN s.words[i] ELSE s.removedWords[i]
                IN /\ i \in DOMAIN s.words
                        <=> ~(w.isCompleted \/ w.hasReachedEdge)
                   /\ i \notin DOMAIN s.words => i \in DOMAIN s.removedWords
                   /\ after.x = w.x
                   /\ ~words[i].isCompleted
                        => after.x = words[i].x + words[i].velocityX * dt
                   /\ after.edgeSeen = words[i].edgeSeen
                        + (IF w.hasReachedEdge THEN 1 ELSE 0)
                   /\ after.completedSeen = words[i].completedSeen
                        + (IF w.isCompleted THEN 1 ELSE 0)

\* Spawning is off while a spawn would otherwise be due (entries queued,
\* room under the cap) and a completed entity is waiting for its event.
Wit_C23 ==
  /\ ~isSpawning /\ Len(remainingMessages) > 0
  /\ Len(activeWords) < maxWords
  /\ \E dt \in Dts : spawnTimer + dt * 1000 >= spawnInterval
  /\ \E i \in LiveIds : words[i].isCompleted
  /\ \E i \in LiveIds : ~words[i].isCompleted

\* C24: while input is disabled every character, backspace and escape
\* keydown leaves the prefix, the entities and the level-3 text as they are.
Inv_C24_DisabledInputIsNoOp ==
  ~isEnabled =>
    \A key \in Keys \cup {"A", "Backspace", "Escape"} :
      handleKeyDown(Cur, key) = Cur

\* Input was disabled in the middle of the level-3 text: part of it is
\* typed, part is still expected, and entities are live.
Wit_C24 ==
  /\ ~isEnabled /\ currentLevel = 3
  /\ typedText # << >> /\ Len(typedText) < Len(fullText)
  /\ LiveIds # {}

\* The words as they are when every isActive flag is put aside.
ExceptActive(ws) == [i \in DOMAIN ws |-> [ws[i] EXCEPT !.isActive = FALSE]]

Inv_C26_ActivationConsumes ==
  (currentLevel # 3 /\ getActiveWord(St) = NoWord) =>
    \A key \in Keys :
      LET matchingWord == findMatchingWord(St, Append(currentInput, key))
          s == handleCharacterTyped(Cur, key)
      IN matchingWord # NoWord =>
           /\ s.words[matchingWord].typedProgress
                = words[matchingWord].typedProgress + 1
           /\ s.words[matchingWord].isActive
                \/ s.words[matchingWord].isCompleted

\* C27: in levels 1 and 2, with no active entity, a character for which
\* prefix + character matches no live entity is dropped: the prefix, every
\* typedProgress and every isActive stay as they are.
Inv_C27_UnmatchedIsDropped ==
  (currentLevel # 3 /\ getActiveWord(St) = NoWord) =>
    \A key \in Keys \cup {"A", "B"} :
      findMatchingWord(St, Append(currentInput, toLowerCase(key))) = NoWord
        => handleCharacterTyped(Cur, key) = Cur

\* No entity is active, a non-completed entity is live, and one of the
\* keys is not the start of any live entity.
Wit_C27 ==
  /\ currentLevel # 3 /\ isEnabled /\ getActiveWord(St) = NoWord
  /\ \E i \in LiveIds : ~words[i].isCompleted /\ ~words[i].isPlayerMessage
  /\ \E key \in {"a", "b"} :
       findMatchingWord(St, Append(currentInput, key)) = NoWord

\* C28: a backspace on a non-empty prefix removes exactly its last
\* character; the active entity is deactivated exactly when the prefix
\* becomes empty; no typedProgress changes; a backspace on an empty prefix
\* changes nothing. In level 3 the prefix is the typed part of the text.
Inv_C28_Backspace ==
  LET s == handleBackspace(Cur)
  IN IF currentLevel = 3
     THEN /\ typedText = << >> => s = Cur
          /\ typedText # << >> =>
               s = [Cur EXCEPT !.typedText = SubSeq(@, 1, Len(@) - 1)]
     ELSE /\ currentInput = << >> => s = Cur
          /\ currentInput # << >> =>
               /\ s.currentInput
                    = SubSeq(currentInput, 1, Len(currentInput) - 1)
               /\ s.activeWords = activeWords
               /\ ExceptActive(s.words) = ExceptActive(words)
               /\ s.currentInput = << >> => getActiveWord(s) = NoWord
               /\ s.currentInput # << >> => s.words = words
               /\ [s EXCEPT !.currentInput = currentInput, !.words = words]
                    = Cur

\* An entity is active under a prefix of two characters, so that the first
\* backspace keeps it active and the second one deactivates it.
Wit_C28 ==
  /\ currentLevel # 3 /\ isEnabled /\ Len(currentInput) >= 2
  /\ \E i \in LiveIds : words[i].isActive

\* C29: an escape leaves the prefix empty and no live entity active, and
\* changes the typedProgress of no entity.
Inv_C29_Escape ==
  LET s == handleEscape(Cur)
  IN /\ s.currentInput = << >>
     /\ \A i \in DOMAIN s.words : ~s.words[i].isActive
     /\ ExceptActive(s.words) = ExceptActive(words)
     /\ [s EXCEPT !.currentInput = currentInput, !.words = words] = Cur

\* The escape has acted on a word in progress: the prefix is empty and no
\* entity is active, while an entity keeps the progress typed before it.
Wit_C29 ==
  /\ currentInput = << >> /\ isEnabled /\ Len(activeWords) >= 2
  /\ getActiveWord(St) = NoWord
  /\ \E i \in LiveIds :
       /\ words[i].typedProgress > 0 /\ ~words[i].isCompleted
       /\ ~words[i].isPlayerMessage

\* C30: no entity, live or just removed, is both completed and at the edge;
\* the update of a completed entity changes nothing of it; an entity at
\* the edge is removed by the update that put it there, so that no key can
\* complete it.
Inv_C30_CompletedXorEdge ==
  /\ \A i \in LiveIds :
       /\ ~words[i].hasReachedEdge
       /\ words[i].isCompleted =>
            \A dt \in Dts : WordUpdate(words[i], dt) = words[i]
  /\ \A i \in DOMAIN removedWords :
       ~(removedWords[i].isCompleted /\ removedWords[i].hasReachedEdge)

\* A completed entity is live so close to its edge that the next update
\* would carry it over if it still moved.
Wit_C30 ==
  \E i \in LiveIds :
    /\ words[i].isCompleted /\ ~words[i].isPlayerMessage
    /\ words[i].x + words[i].velocityX * 3 < WORD_DESTROY_X

\* The keydown events the input manager forwards.
KeyEvents == Keys \cup {"Backspace", "Escape"}

\* C31, as stated: no character, backspace or escape keystroke adds,
\* removes or reorders a live entity.
Inv_C31_KeysKeepMembership ==
  \A key \in KeyEvents :
    LET s == handleKeyDown(Cur, key)
    IN s.activeWords = activeWords /\ DOMAIN s.words = DOMAIN words

\* C31, amended: a keystroke leaves membership and order of the live
\* collection alone, except that in level 3 a space on a finished word of
\* the boss text appends one player message through spawnPlayerMessage.
Inv_C31_KeysOnlySpawnPlayerMessage ==
  \A key \in KeyEvents :
    LET s == handleKeyDown(Cur, key)
    IN \/ s.activeWords = activeWords /\ DOMAIN s.words = DOMAIN words
       \/ /\ currentLevel = 3 /\ key = " " /\ isCurrentWordCompleted(St)
          /\ s.activeWords = Append(activeWords, nextId)
          /\ DOMAIN s.words = DOMAIN words \cup {nextId}
          /\ s.words[nextId].isPlayerMessage
          /\ \A i \in DOMAIN words : s.words[i] = words[i]

\* A keystroke of level 1 or 2 has just been given to the second entity of
\* the collection, which is active, while the first one is still live.
Wit_C31 ==
  /\ currentLevel # 3 /\ lastCall # << >> /\ Len(activeWords) >= 2
  /\ words[activeWords[2]].isActive
  /\ \E i \in LiveIds : words[i].isCompleted

\* The queue and the live collection are both empty.
LevelDrained == Len(remainingMessages) = 0 /\ activeWords = << >>

Inv_C33_AdvanceOnDrain ==
  (currentLevel < 3 /\ ~LevelDrained /\ transitioningToLevel = 0) =>
    \A dt \in Dts :
      \A randomIndex \in 1..Max(1, Len(remainingMessages)) :
        LET s == SpawnerUpdateLogOnly(Cur, dt, randomIndex)
        IN (Len(s.remainingMessages) = 0 /\ s.activeWords = << >>) =>
             /\ s.advanceSignals = advanceSignals + 1
             /\ s.transitioningToLevel = currentLevel + 1

\* C34: whenever a live entity is active, the prefix buffer equals the
\* typed part of that entity, targetText[0 .. typedProgress).
Inv_C34_PrefixIsTypedPart ==
  \A i \in LiveIds :
    words[i].isActive =>
      currentInput = SubSeq(words[i].targetText, 1, words[i].typedProgress)

\* C35: whenever no live entity is active, the prefix buffer is empty, and
\* a character equal to the first character of some live, non-completed
\* entity activates an entity.
Inv_C35_IdlePrefixEmpty ==
  (currentLevel # 3 /\ getActiveWord(St) = NoWord) =>
    /\ currentInput = << >>
    /\ \A key \in Keys :
         (\E i \in LiveIds : /\ ~words[i].isCompleted
                              /\ words[i].targetText[1] = key)
           => LET s == handleCharacterTyped(Cur, key)
              IN \/ getActiveWord(s) # NoWord
                 \/ \E i \in LiveIds : /\ ~words[i].isCompleted
                                        /\ s.words[i].isCompleted

\* C36: the lives counter never drops below 0 and gameOver is triggered at
\* most once per game.
Inv_C36_LivesAndGameOver == lives >= 0 /\ gameOverCount <= 1

PlayerMessages == {i \in LiveIds : words[i].isPlayerMessage}

\* C38: in level 3 each word of the boss text is sent as a player message
\* at most once.  The words of the boss text are pairwise different, so no
\* two live player messages carry the same text, and a space pressed when
\* the whole text is typed and its last word is already on its way spawns
\* nothing.
Inv_C38_WordSentOnce ==
  currentLevel = 3 =>
    /\ \A i, j \in PlayerMessages :
         i # j => words[i].targetText # words[j].targetText
    /\ (/\ typedText = fullText
        /\ \E i \in PlayerMessages :
             words[i].targetText = getCurrentWord(St))
         => handleKeyDown(Cur, " ").nextId = nextId


====
